---- MODULE Spec2Model ----
(***************************************************************************)
(* Model of offdeal-frontend/src/lib/api.ts: the base URL BASE, the        *)
(* response unwrapper j, and the eight operations of the api object.       *)
(*                                                                         *)
(* Text (URLs, request and response bodies, error messages) is a sequence  *)
(* of one-character strings, so that concatenation, number formatting,     *)
(* JSON serialization and JSON parsing are computed and not assumed.       *)
(* A JavaScript value is a record tagged by its type in the field t.       *)
(***************************************************************************)
EXTENDS Integers, Sequences, FiniteSets, TLC

(* ------------------------------ bounds --------------------------------- *)

\* Longest environment value enumerated over EnvAlphabet.
MaxEnvLen == 3

\* Number of operations that may be in flight together in SpecConc.
MaxCalls == 2

\* Largest number of prospects the modelled remote service stores.
MaxProspects == 2

(* ------------------------------- text ---------------------------------- *)

\* A text is a sequence of UTF-16 code units.  A printable ASCII character
\* and each of \t \n \f \r is a one-character string; any other code unit,
\* and the grave accent, which a TLA+ string cannot hold, is the string "u"
\* followed by the four hex digits of its code ("u0008", "u0060").

Range(s) == {s[i] : i \in 1..Len(s)}

RECURSIVE Flatten(_)
Flatten(ss) == IF ss = <<>> THEN <<>> ELSE Head(ss) \o Flatten(Tail(ss))

RECURSIVE Join(_, _)
Join(ss, sep) ==
    IF ss = <<>> THEN <<>>
    ELSE IF Len(ss) = 1 THEN ss[1]
    ELSE ss[1] \o sep \o Join(Tail(ss), sep)

Digits == <<"0", "1", "2", "3", "4", "5", "6", "7", "8", "9">>

HexDigits == Digits \o <<"a", "b", "c", "d", "e", "f">>

IsDigit(ch) == ch \in Range(Digits)

DigitValue(ch) == CHOOSE d \in 0..9 : Digits[d + 1] = ch

IsHexDigit(ch) == ch \in Range(HexDigits) \cup {"A", "B", "C", "D", "E", "F"}

HexValue(ch) ==
    IF ch \in Range(HexDigits) THEN (CHOOSE d \in 0..15 : HexDigits[d + 1] = ch)
    ELSE CHOOSE d \in 10..15 : <<"A", "B", "C", "D", "E", "F">>[d - 9] = ch

\* The characters of the codes 32 to 126.
Ascii ==
    <<" ", "!", "\"", "#", "$", "%", "&", "'", "(", ")", "*", "+",
      ",", "-", ".", "/", "0", "1", "2", "3", "4", "5", "6", "7",
      "8", "9", ":", ";", "<", "=", ">", "?", "@", "A", "B", "C",
      "D", "E", "F", "G", "H", "I", "J", "K", "L", "M", "N", "O",
      "P", "Q", "R", "S", "T", "U", "V", "W", "X", "Y", "Z", "[",
      "\\", "]", "^", "_", "u0060", "a", "b", "c", "d", "e", "f", "g",
      "h", "i", "j", "k", "l", "m", "n", "o", "p", "q", "r", "s",
      "t", "u", "v", "w", "x", "y", "z", "{", "|", "}", "~">>

\* The four lower-case hex digits of a code unit.
HexChars(n) ==
    <<HexDigits[((n \div 4096) % 16) + 1], HexDigits[((n \div 256) % 16) + 1],
      HexDigits[((n \div 16) % 16) + 1], HexDigits[(n % 16) + 1]>>

CharOfCode(n) ==
    IF n >= 32 /\ n <= 126 THEN Ascii[n - 31]
    ELSE IF n = 9 THEN "\t"
    ELSE IF n = 10 THEN "\n"
    ELSE IF n = 12 THEN "\f"
    ELSE IF n = 13 THEN "\r"
    ELSE LET h == HexChars(n) IN "u" \o h[1] \o h[2] \o h[3] \o h[4]

\* A code unit written by its code.
IsCoded(ch) == Len(ch) = 5

CodeOf(ch) ==
    IF IsCoded(ch) THEN CHOOSE n \in 0..65535 : CharOfCode(n) = ch
    ELSE IF ch = "\t" THEN 9
    ELSE IF ch = "\n" THEN 10
    ELSE IF ch = "\f" THEN 12
    ELSE IF ch = "\r" THEN 13
    ELSE CHOOSE n \in 32..126 : Ascii[n - 31] = ch

\* A code unit below U+0020.
IsControl(ch) ==
    \/ ch \in {"\t", "\n", "\f", "\r"}
    \/ IsCoded(ch) /\ \E n \in 0..31 : CharOfCode(n) = ch

IsHighSurrogate(ch) == IsCoded(ch) /\ \E n \in 55296..56319 : CharOfCode(n) = ch

IsLowSurrogate(ch) == IsCoded(ch) /\ \E n \in 56320..57343 : CharOfCode(n) = ch

RECURSIVE NatToString(_)
NatToString(n) ==
    IF n < 10 THEN <<Digits[n + 1]>>
    ELSE NatToString(n \div 10) \o <<Digits[(n % 10) + 1]>>

(* ------------------------------ numbers -------------------------------- *)

\* A finite Number is the record of its sign and of the shortest decimal
\* that denotes it among the doubles, which is the decimal Number::toString
\* prints: the digits v, without leading or trailing zero (<<"0">> for the
\* two zeros), and the exponent e; the Number is v * 10^e or its negative.

Min(S) == CHOOSE x \in S : \A y \in S : x <= y

Max(S) == CHOOSE x \in S : \A y \in S : x >= y

\* The places of the digits of ds that are not 0.
NonZeroPlaces(ds) == {i \in 1..Len(ds) : ds[i] # "0"}

StripLeadingZeros(ds) ==
    IF NonZeroPlaces(ds) = {} THEN <<>>
    ELSE SubSeq(ds, Min(NonZeroPlaces(ds)), Len(ds))

\* The number of zeros that end ds, which is not all zeros.
TrailingZeros(ds) == Len(ds) - Max(NonZeroPlaces(ds))

\* The decimal of the digits ds and the exponent e in normal form.
Decimal(neg, ds, e) ==
    LET a == StripLeadingZeros(ds)
    IN  IF a = <<>> THEN [t |-> "num", neg |-> neg, v |-> <<"0">>, e |-> 0]
        ELSE [t |-> "num", neg |-> neg,
              v |-> SubSeq(a, 1, Len(a) - TrailingZeros(a)), e |-> e + TrailingZeros(a)]

\* The Number n, an integer of at most 15 digits, which a double holds.
Num(n) == Decimal(n < 0, NatToString(IF n < 0 THEN -n ELSE n), 0)

\* Infinity (sign 1) and -Infinity (sign -1).
Infinity(sign) == [t |-> "infinity", v |-> sign]

ZeroChars(n) == [i \in 1..n |-> "0"]

\* Number::toString(x) for a finite x; both zeros print as 0.
JSNumberToString(x) ==
    IF x.v = <<"0">> THEN <<"0">>
    ELSE LET sign == IF x.neg THEN <<"-">> ELSE <<>>
             ds   == x.v
             k    == Len(ds)
             n    == k + x.e
         IN  sign \o
             (IF k <= n /\ n <= 21 THEN ds \o ZeroChars(n - k)
              ELSE IF 0 < n /\ n <= 21 THEN SubSeq(ds, 1, n) \o <<".">> \o SubSeq(ds, n + 1, k)
              ELSE IF -6 < n /\ n <= 0 THEN <<"0", ".">> \o ZeroChars(-n) \o ds
              ELSE LET y  == n - 1
                       ex == <<"e", IF y < 0 THEN "-" ELSE "+">>
                             \o NatToString(IF y < 0 THEN -y ELSE y)
                   IN  IF k = 1 THEN ds \o ex
                       ELSE <<ds[1], ".">> \o SubSeq(ds, 2, k) \o ex)

\* The string a template literal `${n}` gives the integer n.
NumberToString(n) == JSNumberToString(Num(n))

\* Natural numbers of any size: the limbs in base 10000, the least
\* significant first, the most significant not 0; <<>> is 0.

Limb(a, i) == IF i <= Len(a) THEN a[i] ELSE 0

\* y, with x evaluated first.  TLC evaluates an argument where it is first
\* used, and a chain of arguments not yet evaluated is as deep as it is long.
After(x, y) == IF x = x THEN y ELSE y

\* The limbs lo..hi of a * k + b * m + carry, and after them the carry out
\* of them.
RECURSIVE BigLimbs(_, _, _, _, _, _, _)
BigLimbs(a, k, b, m, carry, lo, hi) ==
    IF lo = hi
    THEN <<(Limb(a, lo) * k + Limb(b, lo) * m + carry) % 10000,
           (Limb(a, lo) * k + Limb(b, lo) * m + carry) \div 10000>>
    ELSE LET low == BigLimbs(a, k, b, m, carry, lo, (lo + hi) \div 2)
         IN  After(low, SubSeq(low, 1, Len(low) - 1)
                        \o BigLimbs(a, k, b, m, low[Len(low)], ((lo + hi) \div 2) + 1, hi))

BigTrim(a) ==
    LET nz == {i \in 1..Len(a) : a[i] # 0}
    IN  IF nz = {} THEN <<>> ELSE SubSeq(a, 1, Max(nz))

\* a * k + b * m + c >= 0 for 0 <= k <= 10000, m in {-1, 0, 1}, 0 <= c < 10000.
BigCombine(a, k, b, m, c) ==
    IF a = <<>> /\ b = <<>> THEN (IF c = 0 THEN <<>> ELSE <<c>>)
    ELSE BigTrim(BigLimbs(a, k, b, m, c, 1, IF Len(a) > Len(b) THEN Len(a) ELSE Len(b)))

BigMulAdd(a, k, c) == BigCombine(a, k, <<>>, 0, c)

BigAdd(a, b) == BigCombine(a, 1, b, 1, 0)

\* a - b for a >= b.
BigSub(a, b) == BigCombine(a, 1, b, -1, 0)

\* 1, 0 or -1 as a is greater than, equal to or less than b.
BigCmp(a, b) ==
    LET differ == {i \in 1..Len(a) : i > Len(b) \/ a[i] # b[i]}
    IN  IF Len(a) > Len(b) THEN 1
        ELSE IF Len(a) < Len(b) THEN -1
        ELSE IF differ = {} THEN 0
        ELSE IF a[Max(differ)] > b[Max(differ)] THEN 1
        ELSE -1

\* a * 2^k
RECURSIVE BigMulPow2(_, _)
BigMulPow2(a, k) ==
    IF k <= 13 THEN BigMulAdd(a, 2^k, 0)
    ELSE LET half == BigMulPow2(a, k \div 2)
         IN  After(half, BigMulPow2(half, k - (k \div 2)))

\* a * 10^k
BigMulPow10(a, k) ==
    IF a = <<>> THEN <<>>
    ELSE [i \in 1..(k \div 4) |-> 0] \o BigMulAdd(a, 10^(k % 4), 0)

\* The number of the decimal digits ds, which do not begin with 0.
BigFromDigits(ds) ==
    LET D(i) == IF i >= 1 THEN DigitValue(ds[i]) ELSE 0
    IN  [j \in 1..((Len(ds) + 3) \div 4) |->
            LET h == Len(ds) - 4 * (j - 1)
            IN  D(h) + 10 * D(h - 1) + 100 * D(h - 2) + 1000 * D(h - 3)]

\* 2^52 = 4503599627370496
Big2p52 == <<496, 2737, 5996, 4503>>

\* 2^53 = 9007199254740992
Big2p53 == <<992, 5474, 1992, 9007>>

(* Reading a decimal: the nearest double. *)

\* A lower bound of the b with 2^52 <= x / 2^b < 2^53 for x of the decimal
\* order of magnitude adj, and not less than -1074.
ExponentBound(adj) ==
    LET lg == IF adj >= 0 THEN (adj * 33219) \div 10000 ELSE (adj * 33220) \div 10000
    IN  IF lg - 52 < -1074 THEN -1074 ELSE lg - 52

\* ds * 10^e / 2^b is Numerator / Denominator.
Numerator(ds, e, b) ==
    BigMulPow2(BigMulPow10(BigFromDigits(ds), IF e > 0 THEN e ELSE 0), IF b < 0 THEN -b ELSE 0)

Denominator(e, b) ==
    BigMulPow2(BigMulPow10(<<1>>, IF e < 0 THEN -e ELSE 0), IF b > 0 THEN b ELSE 0)

\* The least b and its s = d * 2^(53 + b - b0) with n / s < 1, from b0.
RECURSIVE FixExponent(_, _, _)
FixExponent(n, s, b) ==
    IF BigCmp(n, s) >= 0 THEN FixExponent(n, BigMulAdd(s, 2, 0), b + 1)
    ELSE [s |-> s, b |-> b]

\* One more bit after q of the fraction r2 / 2s, and what is left of it.
DivideBit(r2, s, q) ==
    IF BigCmp(r2, s) >= 0 THEN [q |-> BigMulAdd(q, 2, 1), r |-> BigSub(r2, s)]
    ELSE [q |-> BigMulAdd(q, 2, 0), r |-> r2]

\* i more bits after q of the fraction r / s < 1, and what is left of r.
RECURSIVE DivideBits(_, _, _, _)
RECURSIVE DivideMoreBits(_, _, _)
DivideBits(r, s, q, i) ==
    IF i = 1 THEN DivideBit(BigMulAdd(r, 2, 0), s, q)
    ELSE DivideMoreBits(DivideBits(r, s, q, i \div 2), s, i - (i \div 2))

DivideMoreBits(first, s, i) == After(first, DivideBits(first.r, s, first.q, i))

\* q, or q + 1 when the fraction r2 / 2s left is more than a half, or is a
\* half and q is odd.
RoundHalfEven(q, r2, s) ==
    IF BigCmp(r2, s) >= (IF q # <<>> /\ q[1] % 2 = 1 THEN 0 ELSE 1)
    THEN BigMulAdd(q, 1, 1)
    ELSE q

\* q * 2^b with q < 2^53.
Significand(q, b) ==
    IF q = Big2p53 THEN [q |-> Big2p52, b |-> b + 1] ELSE [q |-> q, b |-> b]

RoundQuotient(qr, f) == Significand(RoundHalfEven(qr.q, BigMulAdd(qr.r, 2, 0), f.s), f.b)

Quotient(n, f) == RoundQuotient(DivideBits(n, f.s, <<>>, 53), f)

\* The double nearest to n / d * 2^b0.
DoubleOfFraction(n, d, b0) == Quotient(n, FixExponent(n, BigMulPow2(d, 53), b0))

\* The double nearest to ds * 10^e, ties to the even significand: q * 2^b
\* with 2^52 <= q < 2^53, or q < 2^52 and b = -1074 (a subnormal, or 0).
\* It is beyond the largest double when b > 971.
NearestDouble(ds, e) ==
    DoubleOfFraction(Numerator(ds, e, ExponentBound(Len(ds) + e - 1)),
                     Denominator(e, ExponentBound(Len(ds) + e - 1)),
                     ExponentBound(Len(ds) + e - 1))

(* Printing a double: the shortest decimal that reads back as it. *)

\* The double is r / s, and the decimals that read back as it are those
\* from mm / s below it to mp / s above it; narrow: the double below is half
\* as far from it as the double above.
Interval(q, b, narrow) ==
    IF b >= 0
    THEN [r  |-> BigMulPow2(q, b + (IF narrow THEN 2 ELSE 1)),
          s  |-> IF narrow THEN <<4>> ELSE <<2>>,
          mp |-> BigMulPow2(<<1>>, b + (IF narrow THEN 1 ELSE 0)),
          mm |-> BigMulPow2(<<1>>, b)]
    ELSE [r  |-> BigMulAdd(q, IF narrow THEN 4 ELSE 2, 0),
          s  |-> BigMulPow2(<<1>>, (IF narrow THEN 2 ELSE 1) - b),
          mp |-> IF narrow THEN <<2>> ELSE <<1>>,
          mm |-> <<1>>]

\* A lower bound of the decimal order of magnitude of q * 2^b.
DecimalExponentBound(q, b) ==
    LET lg == b + (IF BigCmp(q, Big2p52) >= 0 THEN 52 ELSE ((Len(q) - 1) * 1328) \div 100)
    IN  IF lg >= 0 THEN (lg * 30102) \div 100000 ELSE (lg * 30103) \div 100000

\* The interval x divided by 10^est.
ScaleInterval(x, est) ==
    [r  |-> BigMulPow10(x.r, IF est < 0 THEN -est ELSE 0),
     s  |-> BigMulPow10(x.s, IF est > 0 THEN est ELSE 0),
     mp |-> BigMulPow10(x.mp, IF est < 0 THEN -est ELSE 0),
     mm |-> BigMulPow10(x.mm, IF est < 0 THEN -est ELSE 0)]

\* The least k and its s with high < s (high <= s when the bound is not
\* read back as the double), from a k that is not greater.
RECURSIVE FixUp(_, _, _, _)
FixUp(high, s, k, even) ==
    IF BigCmp(high, s) >= (IF even THEN 0 ELSE 1)
    THEN FixUp(high, BigMulAdd(s, 10, 0), k + 1, even)
    ELSE [s |-> s, k |-> k]

QuotientDigit(r10, s) == Cardinality({j \in 1..9 : BigCmp(BigMulAdd(s, j, 0), r10) <= 0})

\* The digit d with r / s left of the double: it is the last digit when d
\* (low) or d + 1 (high) in its place is in the interval, and then the one of
\* the two that is, the nearer to the double when both are, the even one
\* when they are as near.
DigitWith(d, r, mp, mm, s, low, high, acc) ==
    [r |-> r, mp |-> mp, mm |-> mm, done |-> low \/ high,
     acc |-> Append(acc, Digits[(IF high /\ (~low \/ BigCmp(BigMulAdd(r, 2, 0), s)
                                                      >= (IF d % 2 = 1 THEN 0 ELSE 1))
                                 THEN d + 1 ELSE d) + 1])]

DigitLeaving(d, r, mp, mm, s, even, acc) ==
    DigitWith(d, r, mp, mm, s,
              BigCmp(r, mm) <= (IF even THEN 0 ELSE -1),
              BigCmp(BigAdd(r, mp), s) >= (IF even THEN 0 ELSE 1),
              acc)

DigitFrom(d, r10, mp, mm, s, even, acc) ==
    DigitLeaving(d, BigSub(r10, BigMulAdd(s, d, 0)), mp, mm, s, even, acc)

DigitOf(r10, mp, mm, s, even, acc) == DigitFrom(QuotientDigit(r10, s), r10, mp, mm, s, even, acc)

\* One more digit, unless the last is there.
GenerateDigit(g, s, even) ==
    IF g.done THEN g
    ELSE DigitOf(BigMulAdd(g.r, 10, 0), BigMulAdd(g.mp, 10, 0), BigMulAdd(g.mm, 10, 0),
                 s, even, g.acc)

\* i more digits, or as many as there are: 17 digits tell any double.
RECURSIVE GenerateDigits(_, _, _, _)
GenerateDigits(g, s, even, i) ==
    IF i = 1 THEN GenerateDigit(g, s, even)
    ELSE LET first == GenerateDigits(g, s, even, i \div 2)
         IN  IF first.done THEN first
             ELSE GenerateDigits(first, s, even, i - (i \div 2))

\* 0.acc * 10^k
DecimalOfDigits(acc, k) == [v |-> acc, e |-> k - Len(acc)]

DigitsOf(x, f, even) ==
    DecimalOfDigits(GenerateDigits([r |-> x.r, mp |-> x.mp, mm |-> x.mm,
                                    done |-> FALSE, acc |-> <<>>], f.s, even, 17).acc,
                    f.k)

ShortestInInterval(x, est, even) ==
    DigitsOf(x, FixUp(BigAdd(x.r, x.mp), x.s, est, even), even)

\* The shortest decimal that denotes the double q * 2^b, q > 0, and no
\* other, the nearest to it of that length: every decimal nearer to the
\* double than to the doubles next to it reads back as it, and so does
\* either bound when q is even.
ShortestFrom(x, est, even) == ShortestInInterval(ScaleInterval(x, est), est, even)

ShortestDecimal(q, b) ==
    ShortestFrom(Interval(q, b, q = Big2p52 /\ b > -1074), DecimalExponentBound(q, b),
                 q[1] % 2 = 0)

SignedDecimal(neg, sd) == Decimal(neg, sd.v, sd.e)

NumberOfDouble(neg, d) ==
    IF d.q = <<>> THEN Decimal(neg, <<>>, 0)
    ELSE IF d.b > 971 THEN Infinity(IF neg THEN -1 ELSE 1)
    ELSE SignedDecimal(neg, ShortestDecimal(d.q, d.b))

\* The Number the decimal x denotes: the nearest double.  A decimal of at
\* most 15 digits between 1e-307 and 1e308 is itself the shortest decimal
\* of its double.
NumberOfDecimal(x) ==
    LET adj == Len(x.v) + x.e - 1
    IN  IF x.v = <<"0">> THEN x
        ELSE IF adj >= 309 THEN Infinity(IF x.neg THEN -1 ELSE 1)
        ELSE IF adj <= -325 THEN Decimal(x.neg, <<>>, 0)
        ELSE IF Len(x.v) <= 15 /\ adj >= -307 /\ adj <= 307 THEN x
        ELSE NumberOfDouble(x.neg, NearestDouble(x.v, x.e))

\* The Number a decimal literal of the digits ds and the exponent e denotes.
JSNumber(neg, ds, e) == NumberOfDecimal(Decimal(neg, ds, e))

(* --------------------------- JavaScript values ------------------------- *)

Str(s)    == [t |-> "str", v |-> s]
Bool(b)   == [t |-> "bool", v |-> b]
Arr(es)   == [t |-> "arr", v |-> es]
Null      == [t |-> "null"]
Undefined == [t |-> "undefined"]
BigInt(n) == [t |-> "bigint", v |-> n]

\* An array index as a property key: the decimal text of 0 .. 2^32 - 2.
IsIndexKey(key) ==
    /\ key # <<>>
    /\ \A i \in 1..Len(key) : IsDigit(key[i])
    /\ Len(key) = 1 \/ key[1] # "0"
    /\ \/ Len(key) < 10
       \/ /\ Len(key) = 10
          /\ LET max == <<"4", "2", "9", "4", "9", "6", "7", "2", "9", "4">>
             IN  \/ key = max
                 \/ \E i \in 1..10 :
                       /\ SubSeq(key, 1, i - 1) = SubSeq(max, 1, i - 1)
                       /\ DigitValue(key[i]) < DigitValue(max[i])

\* a < b for two index keys.
IndexLess(a, b) ==
    \/ Len(a) < Len(b)
    \/ /\ Len(a) = Len(b)
       /\ \E i \in 1..Len(a) :
             /\ SubSeq(a, 1, i - 1) = SubSeq(b, 1, i - 1)
             /\ DigitValue(a[i]) < DigitValue(b[i])

\* obj[key] = val on the properties in enumeration order: a key already
\* there keeps its place and takes the value; a new index key goes among
\* the index keys, which come first in ascending order; any other new key
\* goes last.
SetProperty(ps, key, val) ==
    IF \E i \in 1..Len(ps) : ps[i][1] = key
    THEN [i \in 1..Len(ps) |-> IF ps[i][1] = key THEN <<key, val>> ELSE ps[i]]
    ELSE IF IsIndexKey(key)
    THEN LET n == Cardinality({i \in 1..Len(ps) :
                                  IsIndexKey(ps[i][1]) /\ IndexLess(ps[i][1], key)})
         IN  SubSeq(ps, 1, n) \o << <<key, val>> >> \o SubSeq(ps, n + 1, Len(ps))
    ELSE Append(ps, <<key, val>>)

RECURSIVE DefineProperties(_, _)
DefineProperties(acc, ps) ==
    IF ps = <<>> THEN acc
    ELSE DefineProperties(SetProperty(acc, Head(ps)[1], Head(ps)[2]), Tail(ps))

\* The object { k1: v1, k2: v2, ... }: its own properties <<key, value>> in
\* the order they enumerate.
Obj(ps) == [t |-> "obj", v |-> DefineProperties(<<>>, ps)]

(* ---------------------------- JSON.stringify --------------------------- *)

UnicodeEscape(ch) == <<"\\", "u">> \o HexChars(CodeOf(ch))

EscapeChar(ch) ==
    IF ch = "\"" THEN <<"\\", "\"">>
    ELSE IF ch = "\\" THEN <<"\\", "\\">>
    ELSE IF ch = "\n" THEN <<"\\", "n">>
    ELSE IF ch = "\t" THEN <<"\\", "t">>
    ELSE IF ch = "\r" THEN <<"\\", "r">>
    ELSE IF ch = "\f" THEN <<"\\", "f">>
    ELSE IF ch = CharOfCode(8) THEN <<"\\", "b">>
    ELSE IF IsControl(ch) THEN UnicodeEscape(ch)
    ELSE <<ch>>

\* The code unit s[i] as JSON.stringify writes it: a surrogate that is not
\* half of a pair is written as a \u escape.
EscapeUnit(s, i) ==
    IF IsHighSurrogate(s[i])
    THEN IF i < Len(s) /\ IsLowSurrogate(s[i + 1]) THEN <<s[i]>> ELSE UnicodeEscape(s[i])
    ELSE IF IsLowSurrogate(s[i])
    THEN IF i > 1 /\ IsHighSurrogate(s[i - 1]) THEN <<s[i]>> ELSE UnicodeEscape(s[i])
    ELSE EscapeChar(s[i])

QuoteJSONString(s) ==
    <<"\"">> \o Flatten([i \in 1..Len(s) |-> EscapeUnit(s, i)]) \o <<"\"">>

\* JSON.stringify(v): [ok, defined, text].  ok = FALSE is a thrown TypeError
\* (a BigInt anywhere in the value); defined = FALSE is the result undefined.
RECURSIVE JSON_stringify(_)
JSON_stringify(v) ==
    CASE v.t = "num"       -> [ok |-> TRUE, defined |-> TRUE,
                               text |-> JSNumberToString(v)]
      [] v.t = "infinity"  -> [ok |-> TRUE, defined |-> TRUE, text |-> <<"n", "u", "l", "l">>]
      [] v.t = "str"       -> [ok |-> TRUE, defined |-> TRUE, text |-> QuoteJSONString(v.v)]
      [] v.t = "bool"      -> [ok |-> TRUE, defined |-> TRUE,
                               text |-> IF v.v THEN <<"t", "r", "u", "e">>
                                        ELSE <<"f", "a", "l", "s", "e">>]
      [] v.t = "null"      -> [ok |-> TRUE, defined |-> TRUE, text |-> <<"n", "u", "l", "l">>]
      [] v.t = "undefined" -> [ok |-> TRUE, defined |-> FALSE, text |-> <<>>]
      [] v.t = "bigint"    -> [ok |-> FALSE, defined |-> FALSE, text |-> <<>>]
      [] v.t = "arr"       ->
            LET rs == [i \in 1..Len(v.v) |-> JSON_stringify(v.v[i])]
                \* an element that serializes to undefined is written as null
                part(r) == IF r.defined THEN r.text ELSE <<"n", "u", "l", "l">>
            IN  IF \E i \in 1..Len(rs) : ~rs[i].ok
                THEN [ok |-> FALSE, defined |-> FALSE, text |-> <<>>]
                ELSE [ok |-> TRUE, defined |-> TRUE,
                      text |-> <<"[">> \o Join([i \in 1..Len(rs) |-> part(rs[i])], <<",">>)
                               \o <<"]">>]
      [] v.t = "obj"       ->
            LET rs == [i \in 1..Len(v.v) |->
                          [key |-> v.v[i][1], r |-> JSON_stringify(v.v[i][2])]]
                \* a property whose value serializes to undefined is left out
                Kept(e) == e.r.defined
                kept == SelectSeq(rs, Kept)
                member(e) == QuoteJSONString(e.key) \o <<":">> \o e.r.text
            IN  IF \E i \in 1..Len(rs) : ~rs[i].r.ok
                THEN [ok |-> FALSE, defined |-> FALSE, text |-> <<>>]
                ELSE [ok |-> TRUE, defined |-> TRUE,
                      text |-> <<"{">> \o Join([i \in 1..Len(kept) |-> member(kept[i])], <<",">>)
                               \o <<"}">>]

(* ------------------------------ JSON.parse ----------------------------- *)

\* Parsing of JSON text as res.json() does it, on the decoded text: white
\* space, the literals null, true and false, numbers with fraction and
\* exponent, strings with every escape, arrays and objects.

ParseFail == [ok |-> FALSE, val |-> Null, next |-> 0]

ParseOk(v, n) == [ok |-> TRUE, val |-> v, next |-> n]

RECURSIVE SkipWs(_, _)
SkipWs(t, i) ==
    IF i <= Len(t) /\ t[i] \in {" ", "\t", "\n", "\r"} THEN SkipWs(t, i + 1) ELSE i

MatchAt(t, i, lit) ==
    /\ i + Len(lit) - 1 <= Len(t)
    /\ SubSeq(t, i, i + Len(lit) - 1) = lit

\* The place after the digits that begin at i.
SkipDigits(t, i) == Min({j \in i..(Len(t) + 1) : j > Len(t) \/ ~IsDigit(t[j])})

RECURSIVE DigitsValue(_, _)
DigitsValue(ds, acc) ==
    IF ds = <<>> THEN acc ELSE DigitsValue(Tail(ds), 10 * acc + DigitValue(Head(ds)))

\* The value of the digits ds, or 100000000 when it is greater: an
\* exponent that large decides the Number whatever the digits before it.
ParseExponent(ds) ==
    IF Len(StripLeadingZeros(ds)) > 8 THEN 100000000
    ELSE DigitsValue(StripLeadingZeros(ds), 0)

\* -?(0|[1-9][0-9]*)(\.[0-9]+)?([eE][+-]?[0-9]+)?  After a leading 0 the
\* integer part ends, so "01" leaves "1" unread and the caller rejects it.
ParseNumber(t, i) ==
    LET neg == t[i] = "-"
        s   == IF neg THEN i + 1 ELSE i
    IN  IF s > Len(t) \/ ~IsDigit(t[s]) THEN ParseFail
        ELSE
        LET intEnd  == IF t[s] = "0" THEN s + 1 ELSE SkipDigits(t, s)
            hasFrac == intEnd <= Len(t) /\ t[intEnd] = "."
            fracEnd == IF hasFrac THEN SkipDigits(t, intEnd + 1) ELSE intEnd
            fracLen == IF hasFrac THEN fracEnd - (intEnd + 1) ELSE 0
            digits  == SubSeq(t, s, intEnd - 1)
                       \o (IF hasFrac THEN SubSeq(t, intEnd + 1, fracEnd - 1) ELSE <<>>)
        IN  IF hasFrac /\ fracLen = 0 THEN ParseFail
            ELSE
            LET hasExp == fracEnd <= Len(t) /\ t[fracEnd] \in {"e", "E"}
                p      == fracEnd + 1
                signed == hasExp /\ p <= Len(t) /\ t[p] \in {"+", "-"}
                q      == IF signed THEN p + 1 ELSE p
                expEnd == SkipDigits(t, q)
            IN  IF hasExp /\ expEnd = q THEN ParseFail
                ELSE
                LET ex   == ParseExponent(SubSeq(t, q, expEnd - 1))
                    expo == IF ~hasExp THEN 0
                            ELSE IF signed /\ t[p] = "-" THEN -ex ELSE ex
                IN  ParseOk(JSNumber(neg, digits, expo - fracLen),
                            IF hasExp THEN expEnd ELSE fracEnd)

\* The character an escape \ch stands for.
Unescape(ch) ==
    IF ch = "n" THEN "\n"
    ELSE IF ch = "t" THEN "\t"
    ELSE IF ch = "r" THEN "\r"
    ELSE IF ch = "f" THEN "\f"
    ELSE IF ch = "b" THEN CharOfCode(8)
    ELSE ch

\* i is the position after the opening quote.
RECURSIVE ParseString(_, _, _)
ParseString(t, i, acc) ==
    IF i > Len(t) THEN ParseFail
    ELSE IF t[i] = "\"" THEN ParseOk(Str(acc), i + 1)
    ELSE IF t[i] = "\\"
         THEN IF i + 1 <= Len(t) /\ t[i + 1] \in {"\"", "\\", "/", "b", "f", "n", "r", "t"}
              THEN ParseString(t, i + 2, Append(acc, Unescape(t[i + 1])))
              ELSE IF /\ i + 5 <= Len(t)
                      /\ t[i + 1] = "u"
                      /\ \A k \in 2..5 : IsHexDigit(t[i + k])
              THEN ParseString(t, i + 6,
                               Append(acc, CharOfCode(4096 * HexValue(t[i + 2])
                                                      + 256 * HexValue(t[i + 3])
                                                      + 16 * HexValue(t[i + 4])
                                                      + HexValue(t[i + 5]))))
              ELSE ParseFail
    ELSE IF IsControl(t[i]) THEN ParseFail
    ELSE ParseString(t, i + 1, Append(acc, t[i]))

RECURSIVE ParseValue(_, _)
RECURSIVE ParseElements(_, _, _)
RECURSIVE ParseMembers(_, _, _)

\* i is the position of the first character of the value.
ParseValue(t, i) ==
    IF i > Len(t) THEN ParseFail
    ELSE IF t[i] = "[" THEN
        LET k == SkipWs(t, i + 1)
        IN  IF k <= Len(t) /\ t[k] = "]" THEN ParseOk(Arr(<<>>), k + 1)
            ELSE ParseElements(t, k, <<>>)
    ELSE IF t[i] = "{" THEN
        LET k == SkipWs(t, i + 1)
        IN  IF k <= Len(t) /\ t[k] = "}" THEN ParseOk(Obj(<<>>), k + 1)
            ELSE ParseMembers(t, k, <<>>)
    ELSE IF t[i] = "\"" THEN ParseString(t, i + 1, <<>>)
    ELSE IF t[i] = "-" \/ IsDigit(t[i]) THEN ParseNumber(t, i)
    ELSE IF MatchAt(t, i, <<"n", "u", "l", "l">>) THEN ParseOk(Null, i + 4)
    ELSE IF MatchAt(t, i, <<"t", "r", "u", "e">>) THEN ParseOk(Bool(TRUE), i + 4)
    ELSE IF MatchAt(t, i, <<"f", "a", "l", "s", "e">>) THEN ParseOk(Bool(FALSE), i + 5)
    ELSE ParseFail

\* i is the position of the next element of an array already opened.
ParseElements(t, i, acc) ==
    LET r == ParseValue(t, i)
    IN  IF ~r.ok THEN ParseFail
        ELSE LET k == SkipWs(t, r.next)
             IN  IF k > Len(t) THEN ParseFail
                 ELSE IF t[k] = "]" THEN ParseOk(Arr(Append(acc, r.val)), k + 1)
                 ELSE IF t[k] = ","
                      THEN ParseElements(t, SkipWs(t, k + 1), Append(acc, r.val))
                 ELSE ParseFail

\* i is the position of the next member of an object already opened.
ParseMembers(t, i, acc) ==
    IF i > Len(t) \/ t[i] # "\"" THEN ParseFail
    ELSE LET key == ParseString(t, i + 1, <<>>)
         IN  IF ~key.ok THEN ParseFail
             ELSE LET c == SkipWs(t, key.next)
                  IN  IF c > Len(t) \/ t[c] # ":" THEN ParseFail
                      ELSE LET r == ParseValue(t, SkipWs(t, c + 1))
                           IN  IF ~r.ok THEN ParseFail
                               ELSE LET k    == SkipWs(t, r.next)
                                        acc2 == SetProperty(acc, key.val.v, r.val)
                                    IN  IF k > Len(t) THEN ParseFail
                                        ELSE IF t[k] = "}" THEN ParseOk(Obj(acc2), k + 1)
                                        ELSE IF t[k] = ","
                                             THEN ParseMembers(t, SkipWs(t, k + 1), acc2)
                                        ELSE ParseFail

\* JSON.parse(text): [ok, val]; ok = FALSE is a thrown SyntaxError.
WholeText(t, r) ==
    IF r.ok /\ SkipWs(t, r.next) > Len(t)
    THEN [ok |-> TRUE, val |-> r.val]
    ELSE [ok |-> FALSE, val |-> Null]

JSON_parse(t) == WholeText(t, ParseValue(t, SkipWs(t, 1)))

(* ------------------------------ BASE (line 1) -------------------------- *)

\* process.env.NEXT_PUBLIC_API_BASE: unset (undefined) or a string.
EnvUnset == [set |-> FALSE, v |-> <<>>]

EnvString(s) == [set |-> TRUE, v |-> s]

\* Variant: only one trailing slash is removed (the pattern /\/$/).
StripOneSlash(s) ==
    IF s # <<>> /\ s[Len(s)] = "/" THEN SubSeq(s, 1, Len(s) - 1) ELSE s

\* s.replace(/\/+$/, ""): the run of slashes that ends the string is removed.
RECURSIVE StripTrailingSlashes(_)
StripTrailingSlashes(s) ==
    IF s # <<>> /\ s[Len(s)] = "/"
    THEN StripTrailingSlashes(SubSeq(s, 1, Len(s) - 1))
    ELSE s

\* env?.replace(/\/+$/, "") || ""
ResolveBase(e) ==
    LET stripped == IF e.set THEN StripTrailingSlashes(e.v) ELSE <<>>
    IN  IF stripped # <<>> THEN stripped ELSE <<>>

(* ----------------------------- requests -------------------------------- *)

PathProspects == <<"/", "p", "r", "o", "s", "p", "e", "c", "t", "s">>
PathDecks == <<"/", "d", "e", "c", "k", "s", "/">>
PathEmails == <<"/", "e", "m", "a", "i", "l", "s", "/">>
PathEmailsItem == <<"/", "e", "m", "a", "i", "l", "s", "/", "i", "t", "e", "m", "/">>
SuffixGenerate == <<"/", "g", "e", "n", "e", "r", "a", "t", "e">>
SuffixRender == <<"/", "r", "e", "n", "d", "e", "r">>

\* An option the init object of a fetch call does not set.
Absent == "(absent)"

NoBody == [present |-> FALSE, text |-> <<>>]

BodyOf(s) == [present |-> s.defined, text |-> s.text]

JsonHeaders == {<<"Content-Type", "application/json">>}

\* What an operation does before it awaits: throws is an exception raised
\* while the arguments of fetch are evaluated, otherwise fetch(url, init).
FetchCall(url, init) == [throws |-> FALSE, url |-> url, init |-> init]

ThrowsBeforeFetch ==
    [throws |-> TRUE, url |-> <<>>,
     init |-> [method |-> Absent, headers |-> {}, body |-> NoBody, cache |-> Absent]]

\* Variant: the headers option is left out of the init object.
JsonCallNoHeaders(method, url, payload) ==
    LET s == JSON_stringify(payload)
    IN  IF ~s.ok THEN ThrowsBeforeFetch
        ELSE FetchCall(url, [method |-> method, headers |-> {},
                             body |-> BodyOf(s), cache |-> Absent])

\* fetch(url, { method, headers, body: JSON.stringify(payload) })
JsonCall(method, url, payload) ==
    LET s == JSON_stringify(payload)
    IN  IF ~s.ok THEN ThrowsBeforeFetch
        ELSE FetchCall(url, [method |-> method, headers |-> JsonHeaders,
                             body |-> BodyOf(s), cache |-> Absent])

PostCall(url) ==
    FetchCall(url, [method |-> "POST", headers |-> {}, body |-> NoBody, cache |-> Absent])

\* Variant: the cache option is left out of the init object.
listProspectsDefaultCache(base) ==
    FetchCall(base \o PathProspects,
              [method |-> Absent, headers |-> {}, body |-> NoBody, cache |-> Absent])

listProspects(base) ==
    FetchCall(base \o PathProspects,
              [method |-> Absent, headers |-> {}, body |-> NoBody, cache |-> "no-store"])

createProspect(base, payload) == JsonCall("POST", base \o PathProspects, payload)

generateDeck(base, prospectId) ==
    PostCall(base \o PathDecks \o NumberToString(prospectId) \o SuffixGenerate)

\* Variant: the path of generateDeck pasted into renderDeck.
renderDeckWrongSuffix(base, deckId) ==
    PostCall(base \o PathDecks \o NumberToString(deckId) \o SuffixGenerate)

renderDeck(base, deckId) ==
    PostCall(base \o PathDecks \o NumberToString(deckId) \o SuffixRender)

updateDeck(base, deckId, payload) ==
    JsonCall("PATCH", base \o PathDecks \o NumberToString(deckId), payload)

generateEmails(base, prospectId) ==
    PostCall(base \o PathEmails \o NumberToString(prospectId) \o SuffixGenerate)

listEmails(base, prospectId) ==
    FetchCall(base \o PathEmails \o NumberToString(prospectId),
              [method |-> Absent, headers |-> {}, body |-> NoBody, cache |-> Absent])

updateEmail(base, id, payload) ==
    JsonCall("PATCH", base \o PathEmailsItem \o NumberToString(id), payload)

Ops == {"listProspects", "createProspect", "generateDeck", "renderDeck",
        "updateDeck", "generateEmails", "listEmails", "updateEmail"}

OpsWithId == Ops \ {"listProspects", "createProspect"}

OpsWithPayload == {"createProspect", "updateDeck", "updateEmail"}

\* api[op](...) up to its fetch call.
ApiCall(base, op, id, payload) ==
    CASE op = "listProspects"  -> listProspects(base)
      [] op = "createProspect" -> createProspect(base, payload)
      [] op = "generateDeck"   -> generateDeck(base, id)
      [] op = "renderDeck"     -> renderDeck(base, id)
      [] op = "updateDeck"     -> updateDeck(base, id, payload)
      [] op = "generateEmails" -> generateEmails(base, id)
      [] op = "listEmails"     -> listEmails(base, id)
      [] op = "updateEmail"    -> updateEmail(base, id, payload)

\* The request fetch(url, init) sends for call c: an unset method is GET, an
\* unset cache mode is "default", and a text body sent without a Content-Type
\* header is labelled text/plain.
Fetch(c, url, init) ==
    [call    |-> c,
     method  |-> IF init.method = Absent THEN "GET" ELSE init.method,
     url     |-> url,
     headers |-> IF init.body.present /\ ~\E h \in init.headers : h[1] = "Content-Type"
                 THEN init.headers \cup {<<"Content-Type", "text/plain;charset=UTF-8">>}
                 ELSE init.headers,
     body    |-> init.body,
     cache   |-> IF init.cache = Absent THEN "default" ELSE init.cache]

\* Variant: the request is sent a second time.
IssueTwice(log, r) == Append(Append(log, r), r)

\* Variant: a request equal to one already sent is not sent again.
IssueDedup(log, r) ==
    IF \E i \in 1..Len(log) :
          /\ log[i].method = r.method
          /\ log[i].url = r.url
          /\ log[i].body = r.body
    THEN log
    ELSE Append(log, r)

\* The requests sent so far, in order, after fetch is called with request r.
Issue(log, r) == Append(log, r)

(* ------------------------- responses and j (lines 3-9) ----------------- *)

NoResponse == [status |-> 0, body |-> <<>>, readable |-> FALSE, from |-> "none"]

\* res.ok
ResOk(res) == res.status >= 200 /\ res.status <= 299

HttpPrefix == <<"H", "T", "T", "P", " ">>

\* Errors the environment raises; their messages are the environment's.
FetchError  == [name |-> "TypeError", message |-> <<"f">>, raisedBy |-> "fetch"]
ParseError  == [name |-> "SyntaxError", message |-> <<"p">>, raisedBy |-> "json"]
StreamError == [name |-> "TypeError", message |-> <<"s">>, raisedBy |-> "body"]
StringifyError == [name |-> "TypeError", message |-> <<"b">>, raisedBy |-> "stringify"]
NoError     == [name |-> "", message |-> <<>>, raisedBy |-> ""]

\* new Error(message) at line 6
NewError(message) == [name |-> "Error", message |-> message, raisedBy |-> "j"]

Pending      == [kind |-> "pending", value |-> Undefined, error |-> NoError]
Fulfilled(v) == [kind |-> "value", value |-> v, error |-> NoError]
Rejected(e)  == [kind |-> "error", value |-> Undefined, error |-> e]

\* await res.text().catch(() => "")
TextOrEmpty(res) == IF res.readable THEN res.body ELSE <<>>

\* Variant: the message is the body text, with no fallback.
ErrorMessageNoFallback(res) == TextOrEmpty(res)

\* msg || `HTTP ${res.status}`
ErrorMessage(res) ==
    LET msg == TextOrEmpty(res)
    IN  IF msg # <<>> THEN msg ELSE HttpPrefix \o NumberToString(res.status)

\* Variant: the body is returned as text, unparsed.
ResJsonAsText(res) ==
    IF ~res.readable THEN Rejected(StreamError) ELSE Fulfilled(Str(res.body))

\* res.json(): reads the body and parses it.
Parsed(p) == IF p.ok THEN Fulfilled(p.val) ELSE Rejected(ParseError)

ResJson(res) ==
    IF ~res.readable THEN Rejected(StreamError) ELSE Parsed(JSON_parse(res.body))

\* The body reader j calls on res: text() on a failing status, else json().
BodyReader(res) == IF ~ResOk(res) THEN "text" ELSE "json"

\* Variant: res.text() is awaited without the catch.
jNoCatch(res) ==
    IF ~ResOk(res)
    THEN IF ~res.readable THEN Rejected(StreamError)
         ELSE Rejected(NewError(ErrorMessage(res)))
    ELSE ResJson(res)

\* Variant: a failure of res.json() is rethrown as a request error.
jWrapParseFailure(res) ==
    IF ~ResOk(res) THEN Rejected(NewError(ErrorMessage(res)))
    ELSE LET r == ResJson(res)
         IN  IF r.kind = "error" THEN Rejected(NewError(ErrorMessage(res))) ELSE r

\* j(res): how the promise j returns settles.
j(res) ==
    IF ~ResOk(res) THEN Rejected(NewError(ErrorMessage(res)))
    ELSE ResJson(res)

(* ------------------------------- inputs -------------------------------- *)

SeqsUpTo(S, n) == UNION {[1..k -> S] : k \in 0..n}

EnvAlphabet == {"a", "/"}

ExampleBase == <<"h", "t", "t", "p", "s", ":", "/", "/", "a", "p", "i", ".", "e", "x", "a", "m", "p", "l", "e", ".", "c", "o", "m">>
KeyId == <<"i", "d">>
KeyTitle == <<"t", "i", "t", "l", "e">>
KeySlides == <<"s", "l", "i", "d", "e", "s">>
KeySubject == <<"s", "u", "b", "j", "e", "c", "t">>
KeyBody == <<"b", "o", "d", "y">>

EnvValues ==
    {EnvUnset} \cup {EnvString(s) : s \in SeqsUpTo(EnvAlphabet, MaxEnvLen)}
               \cup {EnvString(ExampleBase), EnvString(ExampleBase \o <<"/", "/", "/">>)}

Ids == {-1, 0, 7, 42}

\* Payloads of the types the operations declare.  slides is any[]: it may
\* hold undefined (written as null) or a BigInt (JSON.stringify throws).
Payloads(op) ==
    CASE op = "createProspect" ->
            {Obj(<<>>), Obj(<< <<KeyId, Num(7)>> >>)}
      [] op = "updateDeck" ->
            {Obj(<< <<KeySlides, Arr(<<>>)>> >>),
             Obj(<< <<KeyTitle, Str(<<"Q", "\"", "1">>)>>,
                    <<KeySlides, Arr(<<Num(1), Undefined>>)>> >>),
             Obj(<< <<KeyTitle, Undefined>>, <<KeySlides, Arr(<<Obj(<<>>)>>)>> >>),
             Obj(<< <<KeySlides, Arr(<<BigInt(10)>>)>> >>)}
      [] op = "updateEmail" ->
            {Obj(<<>>),
             Obj(<< <<KeySubject, Str(<<"H", "i">>)>> >>),
             Obj(<< <<KeySubject, Str(<<"H", "i">>)>>,
                    <<KeyBody, Str(<<"a", "\n", "\\", "b">>)>> >>)}

\* The payloads of the runs with several calls in flight: one per operation
\* that JSON.stringify serializes, and the one it throws on.
ConcPayloads(op) ==
    CASE op = "createProspect" -> {Obj(<<>>)}
      [] op = "updateDeck"     -> {Obj(<< <<KeySlides, Arr(<<>>)>> >>),
                                   Obj(<< <<KeySlides, Arr(<<BigInt(10)>>)>> >>)}
      [] op = "updateEmail"    -> {Obj(<< <<KeySubject, Str(<<"H", "i">>)>> >>)}

\* The argument lists <<op, id, payload>>; an operation that takes no id or
\* no payload has 0 or undefined there.
CallArgs(ops, ids, pay) ==
    UNION {{<<op, id, p>> :
              id \in (IF op \in OpsWithId THEN ids ELSE {0}),
              p \in (IF op \in OpsWithPayload THEN pay[op] ELSE {Undefined})}
           : op \in ops}

SeqArgs == CallArgs(Ops, Ids, [op \in OpsWithPayload |-> Payloads(op)])

ConcArgs == CallArgs(Ops, {7}, [op \in OpsWithPayload |-> ConcPayloads(op)])

Statuses == {200, 204, 299, 300, 404, 500}

BodyTexts ==
    {<<>>,
     <<"[", "]">>,
     <<"\n", "[", "1", ",", "\t", "2", ".", "5", "]", "\r", " ">>,
     <<"{", "\"", "b", "\"", ":", "\"", "\\", "u", "0", "0", "4", "1", "\\", "r", "\"", ",",
       "\"", "1", "\"", ":", "1", "e", "3", "}">>,
     <<"{", "\"", "i", "d", "\"", ":", "7", "}">>,
     <<"n", "u", "l", "l">>,
     <<"0">>,
     <<"[", "-", "0", ",", "9", "0", "0", "7", "1", "9", "9", "2", "5", "4", "7", "4", "0", "9", "9", "3", "]">>,
     <<"o", "o", "p", "s">>,
     <<"[", "1", ",">>}

\* Responses a stubbed fetch resolves with; an unreadable body has no text.
MockResponses ==
    {[status |-> st, body |-> b, readable |-> TRUE, from |-> "mock"] :
        st \in Statuses, b \in BodyTexts}
    \cup {[status |-> st, body |-> <<>>, readable |-> FALSE, from |-> "mock"] :
            st \in Statuses}

CallIds == 1..MaxCalls

(* -------------------------------- state -------------------------------- *)

VARIABLES
    env,        \* process.env.NEXT_PUBLIC_API_BASE
    BASE,       \* the module constant BASE
    calls,      \* the invocations of api operations, by slot
    requests,   \* every request fetch was called with, in order
    prospects,  \* remote service: number of prospects stored
    httpCache   \* HTTP cache between fetch and the service: <<url, body>>

vars == <<env, BASE, calls, requests, prospects, httpCache>>

IdleCall ==
    [pc |-> "idle", op |-> "", id |-> 0, payload |-> Undefined,
     issuedAt |-> 0, res |-> NoResponse, reads |-> <<>>, outcome |-> Pending]

InitWith(envs) ==
    /\ env \in envs
    /\ BASE = ResolveBase(env)
    /\ calls = [c \in CallIds |-> IdleCall]
    /\ requests = <<>>
    /\ prospects = 0
    /\ httpCache = {}

Init == InitWith(EnvValues)

RequestsOf(c) == SelectSeq(requests, LAMBDA r : r.call = c)

(* ------------------------------- actions ------------------------------- *)

\* An api operation is called and runs up to its await of fetch.
Invoke(c, a) ==
    /\ calls[c].pc = "idle"
    /\ LET plan == ApiCall(BASE, a[1], a[2], a[3])
           started == [calls[c] EXCEPT !.op = a[1], !.id = a[2], !.payload = a[3],
                                       !.issuedAt = prospects]
       IN  IF plan.throws
           THEN /\ calls' = [calls EXCEPT ![c] =
                                [started EXCEPT !.pc = "done",
                                                !.outcome = Rejected(StringifyError)]]
                /\ UNCHANGED requests
           ELSE /\ calls' = [calls EXCEPT ![c] = [started EXCEPT !.pc = "fetch"]]
                /\ requests' = Issue(requests, Fetch(c, plan.url, plan.init))
    /\ UNCHANGED <<env, BASE, prospects, httpCache>>

\* fetch rejects (transport failure): the rejection leaves the operation.
FetchReject(c) ==
    /\ calls[c].pc = "fetch"
    /\ calls' = [calls EXCEPT ![c].pc = "done", ![c].outcome = Rejected(FetchError)]
    /\ UNCHANGED <<env, BASE, requests, prospects, httpCache>>

\* fetch resolves with a stubbed response; j is entered with it.
MockRespond(c) ==
    /\ calls[c].pc = "fetch"
    /\ \E res \in MockResponses :
          calls' = [calls EXCEPT ![c].pc = "j", ![c].res = res]
    /\ UNCHANGED <<env, BASE, requests, prospects, httpCache>>

\* j tests res.ok and awaits res.text() or res.json().
Unwrap(c) ==
    /\ calls[c].pc = "j"
    /\ calls' = [calls EXCEPT ![c].pc = "read",
                              ![c].reads = Append(@, BodyReader(calls[c].res))]
    /\ UNCHANGED <<env, BASE, requests, prospects, httpCache>>

\* The body read ends; j throws or returns, and so does the operation.
Settle(c) ==
    /\ calls[c].pc = "read"
    /\ calls' = [calls EXCEPT ![c].pc = "done", ![c].outcome = j(calls[c].res)]
    /\ UNCHANGED <<env, BASE, requests, prospects, httpCache>>

\* One caller, a stubbed fetch.
Next ==
    \/ \E a \in SeqArgs : Invoke(1, a)
    \/ FetchReject(1)
    \/ MockRespond(1)
    \/ Unwrap(1)
    \/ Settle(1)

Spec == Init /\ [][Next]_vars

(* ------------------- remote service and HTTP cache --------------------- *)

\* The collection GET /prospects returns when n prospects are stored.
ProspectList(n) == Arr([i \in 1..n |-> Obj(<< <<KeyId, Num(i)>> >>)])


Served(status, body, from) ==
    [status |-> status, body |-> body, readable |-> TRUE, from |-> from]

\* The last request call c sent.
RequestOf(c) == LET rs == RequestsOf(c) IN rs[Len(rs)]

IsJsonRequest(r) ==
    /\ <<"Content-Type", "application/json">> \in r.headers
    /\ r.body.present
    /\ JSON_parse(r.body.text).ok

\* The service answers the request of call c from its current state; a
\* successful answer to a GET sent with the default cache mode is stored.
Answer(r) ==
    IF r.url = BASE \o PathProspects /\ r.method = "GET"
    THEN Served(200, JSON_stringify(ProspectList(prospects)).text, "origin")
    ELSE IF (r.method = "PATCH" \/ (r.url = BASE \o PathProspects /\ r.method = "POST"))
            /\ ~IsJsonRequest(r)
    THEN Served(400, <<"b", "a", "d", " ", "r", "e", "q", "u", "e", "s", "t">>, "origin")
    ELSE IF r.url = BASE \o PathProspects /\ r.method = "POST"
    THEN IF prospects >= MaxProspects THEN Served(500,
                     <<"p", "r", "o", "s", "p", "e", "c", "t", " ", "l", "i", "m", "i", "t", " ",
                       "r", "e", "a", "c", "h", "e", "d">>,
                     "origin")
         ELSE Served(201, JSON_stringify(Obj(<< <<KeyId, Num(prospects + 1)>> >>)).text,
                     "origin")
    ELSE Served(200, <<"{", "}">>, "origin")

\* Call c gets the answer to its request r.
Deliver(c, r, answer) ==
    /\ calls' = [calls EXCEPT ![c].pc = "j", ![c].res = answer]
    /\ prospects' = IF answer.status = 201 THEN prospects + 1 ELSE prospects
    /\ httpCache' = IF r.method = "GET" /\ r.cache = "default" /\ answer.status = 200
                    THEN {e \in httpCache : e[1] # r.url} \cup {<<r.url, answer.body>>}
                    ELSE httpCache

ServerHandle(c) ==
    /\ calls[c].pc = "fetch"
    /\ Deliver(c, RequestOf(c), Answer(RequestOf(c)))
    /\ UNCHANGED <<env, BASE, requests>>

\* A GET sent with the default cache mode is answered from the cache.
CacheServe(c) ==
    /\ calls[c].pc = "fetch"
    /\ LET r == RequestOf(c)
       IN  /\ r.method = "GET"
           /\ r.cache = "default"
           /\ \E e \in httpCache :
                 /\ e[1] = r.url
                 /\ calls' = [calls EXCEPT ![c].pc = "j",
                                           ![c].res = Served(200, e[2], "cache")]
    /\ UNCHANGED <<env, BASE, requests, prospects, httpCache>>

\* The service is unavailable: 503 with an empty body.
ServerFail(c) ==
    /\ calls[c].pc = "fetch"
    /\ calls' = [calls EXCEPT ![c].pc = "j", ![c].res = Served(503, <<>>, "origin")]
    /\ UNCHANGED <<env, BASE, requests, prospects, httpCache>>

InitConc == InitWith({EnvString(<<"a", "/">>)})

\* Several callers, the remote service behind an HTTP cache.
NextConc ==
    \E c \in CallIds :
        \/ \E a \in ConcArgs : Invoke(c, a)
        \/ FetchReject(c)
        \/ ServerHandle(c)
        \/ CacheServe(c)
        \/ ServerFail(c)
        \/ Unwrap(c)
        \/ Settle(c)

SpecConc == InitConc /\ [][NextConc]_vars

(* ======================= properties of the client ====================== *)

Settled(c) == calls[c].pc = "done"

\* The call got a response, so j was entered with it.
Answered(c) == calls[c].res # NoResponse

SuccessStatus(st) == st \in 200..299

\* Decimal text of the status codes and ids in use, written out.
DecimalText(n) ==
    CASE n = -1  -> <<"-", "1">>
      [] n = 0   -> <<"0">>
      [] n = 7   -> <<"7">>
      [] n = 42  -> <<"4", "2">>
      [] n = 300 -> <<"3", "0", "0">>
      [] n = 400 -> <<"4", "0", "0">>
      [] n = 404 -> <<"4", "0", "4">>
      [] n = 500 -> <<"5", "0", "0">>
      [] n = 503 -> <<"5", "0", "3">>

(* ---- C1 ---- *)

\* C1: when the response has a failing status, the operation fails with an
\* Error whose message is the body text if that text is not empty, and
\* otherwise "HTTP " followed by the status code; it never returns a value.
C1_FailingStatusMessage ==
    \A c \in CallIds :
        LET k == calls[c]
        IN  (Settled(c) /\ Answered(c) /\ ~SuccessStatus(k.res.status) /\ k.res.readable)
            => /\ k.outcome.kind = "error"
               /\ k.outcome.error.name = "Error"
               /\ k.outcome.error.message =
                     IF k.res.body # <<>> THEN k.res.body
                     ELSE <<"H", "T", "T", "P", " ">> \o DecimalText(k.res.status)

C1_Witness ==
    /\ Settled(1)
    /\ calls[1].res.status = 500
    /\ calls[1].res.readable
    /\ calls[1].res.body = <<>>
    /\ calls[1].outcome.error.message = <<"H", "T", "T", "P", " ", "5", "0", "0">>

(* ---- C2 ---- *)

\* C2: when the status is failing and reading the body text fails, the read
\* failure is not propagated: the operation fails with the Error "HTTP <status>".
C2_ReadFailureIsSwallowed ==
    \A c \in CallIds :
        LET k == calls[c]
        IN  (Settled(c) /\ Answered(c) /\ ~SuccessStatus(k.res.status) /\ ~k.res.readable)
            => /\ k.outcome.kind = "error"
               /\ k.outcome.error # StreamError
               /\ k.outcome.error.name = "Error"
               /\ k.outcome.error.message = <<"H", "T", "T", "P", " ">> \o DecimalText(k.res.status)

C2_Witness ==
    /\ Settled(1)
    /\ calls[1].res.status = 404
    /\ ~calls[1].res.readable
    /\ calls[1].reads = <<"text">>
    /\ calls[1].outcome.error.message = <<"H", "T", "T", "P", " ", "4", "0", "4">>

(* ---- C3 ---- *)

\* The well-formed texts of BodyTexts and the values they denote.
WellFormedBodies ==
    {<<<<"[", "]">>, Arr(<<>>)>>,
     <<<<"\n", "[", "1", ",", "\t", "2", ".", "5", "]", "\r", " ">>,
       [t |-> "arr", v |-> <<[t |-> "num", neg |-> FALSE, v |-> <<"1">>, e |-> 0],
                             [t |-> "num", neg |-> FALSE, v |-> <<"2", "5">>, e |-> -1]>>]>>,
     <<<<"{", "\"", "b", "\"", ":", "\"", "\\", "u", "0", "0", "4", "1", "\\", "r", "\"", ",",
         "\"", "1", "\"", ":", "1", "e", "3", "}">>,
       [t |-> "obj", v |-> << <<<<"1">>, [t |-> "num", neg |-> FALSE, v |-> <<"1">>, e |-> 3]>>,
                              <<<<"b">>, [t |-> "str", v |-> <<"A", "\r">>]>> >>]>>,
     <<<<"{", "\"", "i", "d", "\"", ":", "7", "}">>, Obj(<< <<KeyId, Num(7)>> >>)>>,
     <<<<"n", "u", "l", "l">>, Null>>,
     <<<<"0">>, Num(0)>>,
     <<<<"[", "-", "0", ",", "9", "0", "0", "7", "1", "9", "9", "2", "5", "4", "7", "4", "0", "9", "9", "3", "]">>,
       [t |-> "arr",
        v |-> <<[t |-> "num", neg |-> TRUE, v |-> <<"0">>, e |-> 0],
                [t |-> "num", neg |-> FALSE, e |-> 0,
                 v |-> <<"9", "0", "0", "7", "1", "9", "9", "2", "5", "4", "7", "4", "0", "9", "9", "2">>]>>]>>}

\* C3: on a success status with a well-formed JSON body the operation
\* returns the parsed body and raises no error.
C3_SuccessReturnsParsedBody ==
    \A c \in CallIds :
        LET k == calls[c]
        IN  \A w \in WellFormedBodies :
               (Settled(c) /\ Answered(c) /\ SuccessStatus(k.res.status)
                  /\ k.res.readable /\ k.res.body = w[1])
               => k.outcome = [kind |-> "value", value |-> w[2], error |-> NoError]

C3_Witness ==
    /\ Settled(1)
    /\ calls[1].op = "renderDeck"
    /\ calls[1].res.status = 200
    /\ calls[1].res.body = <<"{", "\"", "i", "d", "\"", ":", "7", "}">>
    /\ calls[1].outcome.value = Obj(<< <<KeyId, Num(7)>> >>)

(* ---- C4 ---- *)

RECURSIVE HasBigInt(_)
HasBigInt(v) ==
    CASE v.t = "bigint" -> TRUE
      [] v.t = "arr"    -> \E i \in 1..Len(v.v) : HasBigInt(v.v[i])
      [] v.t = "obj"    -> \E i \in 1..Len(v.v) : HasBigInt(v.v[i][2])
      [] OTHER          -> FALSE

\* C4 as stated: every invocation has issued exactly one request, whatever
\* its outcome, and none completes without issuing its request.
C4_ExactlyOneRequestAlways ==
    \A c \in CallIds :
        Len(RequestsOf(c)) = IF calls[c].pc = "idle" THEN 0 ELSE 1

\* C4 amended: an invocation issues at most one request and never repeats
\* it; it issues exactly one unless serializing its payload throws, and then
\* it fails with that TypeError before fetch is called and issues none.
C4_OneRequestUnlessSerializationThrows ==
    \A c \in CallIds :
        LET k == calls[c]
            n == Len(RequestsOf(c))
        IN  IF k.pc = "idle" THEN n = 0
            ELSE IF k.op \in OpsWithPayload /\ HasBigInt(k.payload)
                 THEN n = 0 /\ k.pc = "done" /\ k.outcome = Rejected(StringifyError)
                 ELSE n = 1 /\ k.outcome.error.raisedBy # "stringify"

C4_Witness ==
    /\ Settled(1)
    /\ calls[1].outcome = Rejected(FetchError)
    /\ Len(requests) = 1
    /\ requests[1].call = 1

(* ---- C5 ---- *)

TableMethod(op) ==
    CASE op \in {"listProspects", "listEmails"} -> "GET"
      [] op \in {"createProspect", "generateDeck", "renderDeck", "generateEmails"} -> "POST"
      [] op \in {"updateDeck", "updateEmail"} -> "PATCH"

TablePath(op, id) ==
    CASE op \in {"listProspects", "createProspect"} -> <<"/", "p", "r", "o", "s", "p", "e", "c", "t", "s">>
      [] op = "generateDeck"   -> <<"/", "d", "e", "c", "k", "s", "/">> \o DecimalText(id) \o <<"/", "g", "e", "n", "e", "r", "a", "t", "e">>
      [] op = "renderDeck"     -> <<"/", "d", "e", "c", "k", "s", "/">> \o DecimalText(id) \o <<"/", "r", "e", "n", "d", "e", "r">>
      [] op = "updateDeck"     -> <<"/", "d", "e", "c", "k", "s", "/">> \o DecimalText(id)
      [] op = "generateEmails" -> <<"/", "e", "m", "a", "i", "l", "s", "/">> \o DecimalText(id) \o <<"/", "g", "e", "n", "e", "r", "a", "t", "e">>
      [] op = "listEmails"     -> <<"/", "e", "m", "a", "i", "l", "s", "/">> \o DecimalText(id)
      [] op = "updateEmail"    -> <<"/", "e", "m", "a", "i", "l", "s", "/", "i", "t", "e", "m", "/">> \o DecimalText(id)

\* C5: each request has the method and the path of its operation's table
\* row, with the base URL in front and the id in decimal in the path; a call
\* of any other operation, with any id, would use another (method, URL) pair.
C5_MethodAndPathPerTable ==
    \A i \in 1..Len(requests) :
        LET r == requests[i]
            k == calls[r.call]
        IN  /\ r.method = TableMethod(k.op)
            /\ r.url = BASE \o TablePath(k.op, k.id)
            /\ \A a \in SeqArgs :
                  LET plan == ApiCall(BASE, a[1], a[2], a[3])
                  IN  (a[1] # k.op /\ ~plan.throws)
                      => <<Fetch(0, plan.url, plan.init).method, plan.url>> # <<r.method, r.url>>

C5_Witness ==
    /\ Len(requests) = 1
    /\ calls[1].op = "updateEmail"
    /\ calls[1].id = 7
    /\ BASE = <<>>
    /\ requests[1].method = "PATCH"
    /\ requests[1].url = <<"/", "e", "m", "a", "i", "l", "s", "/", "i", "t", "e", "m", "/", "7">>

(* ---- C6 ---- *)

\* The value a JSON text of v denotes: undefined elements of an array are
\* null, properties whose value is undefined are missing.
RECURSIVE JsonImage(_)
JsonImage(v) ==
    CASE v.t = "arr" ->
            Arr([i \in 1..Len(v.v) |->
                    IF v.v[i].t = "undefined" THEN Null ELSE JsonImage(v.v[i])])
      [] v.t = "obj" ->
            LET kept == SelectSeq(v.v, LAMBDA q : q[2].t # "undefined")
            IN  Obj([i \in 1..Len(kept) |-> <<kept[i][1], JsonImage(kept[i][2])>>])
      [] OTHER -> v

\* C6: createProspect, updateDeck and updateEmail send the JSON text of
\* their payload as the body, with the header Content-Type: application/json;
\* the other five operations send no body and no header.
C6_BodyAndContentType ==
    \A i \in 1..Len(requests) :
        LET r == requests[i]
            k == calls[r.call]
        IN  IF k.op \in {"createProspect", "updateDeck", "updateEmail"}
            THEN /\ r.body.present
                 /\ JSON_parse(r.body.text) = [ok |-> TRUE, val |-> JsonImage(k.payload)]
                 /\ r.headers = {<<"Content-Type", "application/json">>}
                 /\ k.payload = Obj(<< <<KeySubject, Str(<<"H", "i">>)>> >>)
                       => r.body.text = <<"{", "\"", "s", "u", "b", "j", "e", "c", "t", "\"", ":", "\"", "H", "i", "\"", "}">>
            ELSE /\ ~r.body.present
                 /\ r.headers = {}

C6_Witness ==
    /\ Len(requests) = 1
    /\ calls[1].op = "updateDeck"
    /\ calls[1].id = 42
    /\ calls[1].payload = Obj(<< <<KeySlides, Arr(<<>>)>> >>)
    /\ requests[1].method = "PATCH"
    /\ requests[1].body = [present |-> TRUE, text |-> <<"{", "\"", "s", "l", "i", "d", "e", "s", "\"", ":", "[", "]", "}">>]
    /\ <<"Content-Type", "application/json">> \in requests[1].headers

(* ---- C7 ---- *)

Slashes(n) == [i \in 1..n |-> "/"]

\* C7: BASE is the environment value without its trailing slashes, and the
\* empty string when the value is unset, empty or only slashes; BASE never
\* ends in a slash, and a request URL is BASE followed by a path, with
\* exactly one slash where they meet.
C7_BaseHasNoTrailingSlash ==
    /\ env.set => \E n \in 0..Len(env.v) : env.v = BASE \o Slashes(n)
    /\ BASE = <<>> <=> (~env.set \/ env.v = Slashes(Len(env.v)))
    /\ BASE # <<>> => BASE[Len(BASE)] # "/"
    /\ \A i \in 1..Len(requests) :
          LET url == requests[i].url
              n   == Len(BASE)
          IN  /\ Len(url) >= n + 2
              /\ SubSeq(url, 1, n) = BASE
              /\ url[n + 1] = "/"
              /\ url[n + 2] # "/"

C7_Witness ==
    /\ env = EnvString(<<"h", "t", "t", "p", "s", ":", "/", "/", "a", "p", "i", ".", "e", "x", "a", "m", "p", "l", "e", ".", "c", "o", "m", "/", "/", "/">>)
    /\ Len(requests) = 1
    /\ calls[1].op = "listProspects"
    /\ requests[1].url = <<"h", "t", "t", "p", "s", ":", "/", "/", "a", "p", "i", ".", "e", "x", "a", "m", "p", "l", "e", ".", "c", "o", "m", "/", "p", "r", "o", "s", "p", "e", "c", "t", "s">>

(* ---- C9 ---- *)

\* The texts of BodyTexts that are not JSON.
MalformedBodies == {<<>>, <<"o", "o", "p", "s">>, <<"[", "1", ",">>}

\* C9: on a success status with a body that is not JSON the operation fails
\* with the parse failure res.json() raised, as raised; on a success status
\* the body text is never read with res.text().
C9_ParseFailurePropagates ==
    \A c \in CallIds :
        LET k == calls[c]
        IN  /\ (Answered(c) /\ SuccessStatus(k.res.status)) => k.reads \in {<<>>, <<"json">>}
            /\ (Settled(c) /\ Answered(c) /\ SuccessStatus(k.res.status)
                  /\ k.res.readable /\ k.res.body \in MalformedBodies)
               => /\ k.outcome = [kind |-> "error", value |-> Undefined, error |-> ParseError]
                  /\ k.outcome.error.raisedBy = "json"
                  /\ k.reads = <<"json">>

C9_Witness ==
    /\ Settled(1)
    /\ calls[1].res.status = 200
    /\ calls[1].res.body = <<"o", "o", "p", "s">>
    /\ calls[1].outcome.error.name = "SyntaxError"
    /\ calls[1].reads = <<"json">>

(* ---- C8 ---- *)

\* C8 as stated: the list a listProspects call returns is the remote state
\* current at the moment the call returns.
C8_ResultIsCurrentRemoteState ==
    [][\A c \in CallIds :
          (/\ calls[c].op = "listProspects"
           /\ calls[c].pc = "read"
           /\ calls'[c].pc = "done"
           /\ calls'[c].outcome.kind = "value")
          => calls'[c].outcome.value = ProspectList(prospects')]_vars

\* C8 amended: listProspects is sent with cache mode no-store, its response
\* never comes from the cache and never enters it, and the list it returns
\* is the remote state of some moment between the sending of the request
\* and the return of the call: never older than the request, but without
\* the prospects created after the service answered.
C8_NoStoreResultNotOlderThanRequest ==
    /\ \A i \in 1..Len(requests) :
          calls[requests[i].call].op = "listProspects" => requests[i].cache = "no-store"
    /\ \A e \in httpCache : e[1] # BASE \o <<"/", "p", "r", "o", "s", "p", "e", "c", "t", "s">>
    /\ \A c \in CallIds :
          LET k == calls[c]
          IN  (k.op = "listProspects" /\ Answered(c))
              => /\ k.res.from = "origin"
                 /\ (Settled(c) /\ k.outcome.kind = "value")
                    => \E n \in k.issuedAt..prospects : k.outcome.value = ProspectList(n)

C8_Witness ==
    \E c \in CallIds :
        /\ calls[c].op = "listProspects"
        /\ Settled(c)
        /\ calls[c].issuedAt = 0
        /\ prospects = 1
        /\ calls[c].outcome.value = Arr(<<Obj(<< <<KeyId, Num(1)>> >>)>>)

(* ---- C10 ---- *)

\* C10 as stated: with several operations in flight the client keeps BASE as
\* it was resolved, sends one request per call (identical calls included),
\* and settles each call by the response to its own request alone.
C10_CallsAreIndependent ==
    /\ BASE = IF env.set THEN <<"a">> ELSE <<>>
    /\ Len(requests) = Cardinality({c \in CallIds : calls[c].pc # "idle"})
    /\ \A c \in CallIds : calls[c].pc # "idle" => Len(RequestsOf(c)) = 1
    /\ \A c \in CallIds :
          LET k == calls[c]
          IN  (Settled(c) /\ Answered(c))
              => /\ k.outcome.kind \in {"value", "error"}
                 /\ k.outcome.kind = "value"
                       => /\ SuccessStatus(k.res.status)
                          /\ JSON_parse(k.res.body) = [ok |-> TRUE, val |-> k.outcome.value]
                 /\ k.outcome.kind = "error"
                       => \/ /\ ~SuccessStatus(k.res.status)
                             /\ k.outcome.error.message \in
                                   {k.res.body,
                                    <<"H", "T", "T", "P", " ">> \o DecimalText(k.res.status)}
                          \/ /\ SuccessStatus(k.res.status)
                             /\ ~JSON_parse(k.res.body).ok
                             /\ k.outcome.error = ParseError
    /\ \A c, d \in CallIds :
          (Settled(c) /\ Settled(d) /\ Answered(c) /\ calls[c].res = calls[d].res)
          => calls[c].outcome = calls[d].outcome

\* Serializing the payload of call c throws before fetch is called.
ThrowsOnPayload(c) == calls[c].op \in OpsWithPayload /\ HasBigInt(calls[c].payload)

\* C10 amended: with several operations in flight the client keeps BASE as
\* it was resolved; every call started sends one request of its own
\* (identical calls included), except a call whose payload JSON.stringify
\* cannot serialize, which sends none and fails with that TypeError whatever
\* the other calls do; a call that got a response settles by that response
\* alone, and a call that got none settles with an error of fetch or of
\* JSON.stringify.
C10_IndependentOneRequestUnlessSerializationThrows ==
    /\ BASE = IF env.set THEN <<"a">> ELSE <<>>
    /\ Len(requests)
          = Cardinality({c \in CallIds : calls[c].pc # "idle" /\ ~ThrowsOnPayload(c)})
    /\ \A i, k \in 1..Len(requests) : requests[i].call = requests[k].call => i = k
    /\ \A c \in CallIds :
          IF calls[c].pc = "idle" THEN Len(RequestsOf(c)) = 0
          ELSE IF ThrowsOnPayload(c)
               THEN /\ Len(RequestsOf(c)) = 0
                    /\ Settled(c)
                    /\ ~Answered(c)
                    /\ calls[c].outcome = Rejected(StringifyError)
               ELSE /\ Len(RequestsOf(c)) = 1
                    /\ (Settled(c) /\ ~Answered(c)) => calls[c].outcome = Rejected(FetchError)
    /\ \A c \in CallIds :
          LET k == calls[c]
          IN  (Settled(c) /\ Answered(c))
              => /\ k.outcome.kind \in {"value", "error"}
                 /\ k.outcome.kind = "value"
                       => /\ SuccessStatus(k.res.status)
                          /\ JSON_parse(k.res.body) = [ok |-> TRUE, val |-> k.outcome.value]
                 /\ k.outcome.kind = "error"
                       => \/ /\ ~SuccessStatus(k.res.status)
                             /\ k.outcome.error.message \in
                                   {k.res.body,
                                    <<"H", "T", "T", "P", " ">> \o DecimalText(k.res.status)}
                          \/ /\ SuccessStatus(k.res.status)
                             /\ ~JSON_parse(k.res.body).ok
                             /\ k.outcome.error = ParseError
    /\ \A c, d \in CallIds :
          (Settled(c) /\ Settled(d) /\ Answered(c) /\ calls[c].res = calls[d].res)
          => calls[c].outcome = calls[d].outcome

\* Two calls of updateDeck on the same deck in flight together: the first
\* sent its request and still waits for the response; the second, with a
\* payload that cannot be serialized, has failed without a request.
C10_Witness ==
    /\ calls[1].op = "updateDeck"
    /\ calls[2].op = "updateDeck"
    /\ calls[1].id = calls[2].id
    /\ calls[1].pc = "fetch"
    /\ ~ThrowsOnPayload(1)
    /\ ThrowsOnPayload(2)
    /\ Settled(2)
    /\ calls[2].outcome = Rejected(StringifyError)
    /\ Len(requests) = 1
    /\ requests[1].call = 1

====
